---- MODULE Spec2Model ----
(***************************************************************************)
(* Model of the ADA compliance pipeline: ComplianceRuleEngine.evaluate     *)
(* (compliance_engine.py), ComplianceAnalyzer._calculate_compliance_score  *)
(* (analyzer.py) and CostEstimator.estimate (cost_estimator.py), as        *)
(* ComplianceAnalyzer.analyze runs them, and each operation called on its  *)
(* own, CostEstimator.estimate_phased_approach, generate_cost_summary and  *)
(* _estimate_timeline included.                                            *)
(*                                                                         *)
(* Numbers.  Python floats are modelled as scaled integers: percentages,   *)
(* gaps, vertical changes and marking quality are in hundredths of their   *)
(* unit (8.33 % is 833, 0.5 inch is 50, quality 0.6 is 60); widths and     *)
(* landing components are in whole inches.  Complexity multipliers are in  *)
(* tenths (1.3 is 13); costs and labor hours are whole numbers.            *)
(*                                                                         *)
(* Dictionaries are functions; "key in d" is "key \in DOMAIN d".  The      *)
(* result of d.get(key) is an option: <<>> for None, <<v>> for a value.    *)
(***************************************************************************)
EXTENDS Integers, Sequences, FiniteSets, TLC

VARIABLES
    pc,            \* position in ComplianceAnalyzer.analyze
    detections,    \* the detection list handed to evaluate
    measurements,  \* the measurement dictionary handed to evaluate
    violations,    \* the violation list returned by evaluate
    score,         \* the compliance score (NoScore until computed)
    given,         \* the violation list as handed to a directly called operation
    complexity,    \* the complexity key handed to estimate
    cost_analysis, \* the dictionary returned by estimate (<<>> until computed)
    budget,        \* the budget handed to estimate_phased_approach
    plan,          \* the dictionary returned by estimate_phased_approach (<<>> until computed)
    summary,       \* the result of generate_cost_summary (<<>> until computed)
    hours_given,   \* the hours handed to _estimate_timeline
    timeline       \* the label returned by _estimate_timeline (<<>> until computed)

vars == <<pc, detections, measurements, violations, score, given, complexity,
          cost_analysis, budget, plan, summary, hours_given, timeline>>

\* ---------------------------------------------------------------- bounds
MaxDets == 1          \* detections in one analysis
MaxEntries == 1       \* measurement entries in one measurement dictionary
MaxScoreViols == 4    \* violations handed directly to the scorer
MaxScoreDets == 3     \* detections handed directly to the scorer
MaxPrioViols == 3     \* violations handed directly to the prioritizer
MaxEstViols == 2      \* violations handed directly to estimate
MaxPhaseViols == 3    \* violations handed directly to estimate_phased_approach
MaxHours == 900       \* total labor hours handed directly to _estimate_timeline

NoScore == 0 - 1

\* ------------------------------------------------- ADA standards constants
MAX_CURB_RAMP_SLOPE == 833
MAX_CROSS_SLOPE == 200
MIN_SIDEWALK_WIDTH == 36
MAX_SURFACE_GAP == 50
MAX_VERTICAL_CHANGE == 25
MIN_LANDING_SIZE == 36
MIN_MARKING_QUALITY == 60

\* ------------------------------------------------------------ input space
Kinds == {"slope", "cross_slope", "width", "detectable_warning",
          "landing_size", "max_gap", "vertical_change", "has_curb_ramps",
          "marking_quality"}

\* Lower-cased class names a detector can report, each with the keywords
\* that occur in it as substrings.
ClassNames == {"curb ramp", "sidewalk", "crosswalk", "surface", "pole",
               "sidewalk ramp"}

KeywordsIn(class_name) ==
    CASE class_name = "curb ramp"     -> {"curb", "ramp"}
      [] class_name = "sidewalk"      -> {"sidewalk"}
      [] class_name = "crosswalk"     -> {"crosswalk"}
      [] class_name = "surface"       -> {"surface"}
      [] class_name = "sidewalk ramp" -> {"sidewalk", "ramp"}
      [] OTHER                        -> {}

Contains(class_name, kw) == kw \in KeywordsIn(class_name)

\* Values a measurement of each kind can take.
ValuesOf(kind) ==
    CASE kind = "slope"              -> {0, 833, 1200}
      [] kind = "cross_slope"        -> {200, 250}
      [] kind = "width"              -> {0 - 5, 0, 35, 36}
      [] kind = "detectable_warning" -> {TRUE, FALSE}
      [] kind = "landing_size"       -> {<<36, 36>>, <<35, 40>>, <<40, 35>>}
      [] kind = "max_gap"            -> {50, 80}
      [] kind = "vertical_change"    -> {25, 30}
      [] kind = "has_curb_ramps"     -> {TRUE, FALSE}
      [] kind = "marking_quality"    -> {0, 59, 60}

DetIds == 1 .. MaxDets

Entries == UNION {{[kind |-> k, id |-> i, val |-> v] : i \in DetIds, v \in ValuesOf(k)} : k \in Kinds}

Clash(e, s) == \E f \in s : f.kind = e.kind /\ f.id = e.id

RECURSIVE EntrySets(_)
EntrySets(n) ==
    IF n = 0 THEN {{}}
    ELSE LET prev == EntrySets(n - 1)
         IN  prev \cup {s \cup {e} : <<s, e>> \in {p \in prev \X Entries : ~Clash(p[2], p[1])}}

\* The dictionary of per-kind maps holding the entries es; maps is the set
\* of kinds whose map exists.
MeasurementSet(maps, es) ==
    [k \in maps |->
        [i \in {e.id : e \in {f \in es : f.kind = k}} |->
            (CHOOSE e \in es : e.kind = k /\ e.id = i).val]]

KindsOf(es) == {e.kind : e \in es}

\* A hand-built dictionary holds just the maps of its entries; the one
\* MeasurementExtractor.extract builds holds all nine maps.
MeasurementSets ==
    UNION {{MeasurementSet(KindsOf(es), es), MeasurementSet(Kinds, es)} : es \in EntrySets(MaxEntries)}

RECURSIVE SeqsUpTo(_, _)
SeqsUpTo(S, n) ==
    IF n = 0 THEN {<<>>}
    ELSE LET prev == SeqsUpTo(S, n - 1)
         IN  prev \cup {Append(s, x) : <<s, x>> \in {p \in prev \X S : Len(p[1]) = n - 1}}

\* A detection list: detection i carries id i and bounding box i.
DetectionList(names) ==
    [i \in 1 .. Len(names) |-> [id |-> i, class_name |-> names[i], bbox |-> i]]

DetectionLists == {DetectionList(names) : names \in SeqsUpTo(ClassNames, MaxDets)}

\* ------------------------------------------------------- dictionary reads
\* d.get(key): <<>> models None.
Get(d, key) == IF key \in DOMAIN d THEN <<d[key]>> ELSE <<>>

\* d.get(key, default)
GetDefault(d, key, default) == IF key \in DOMAIN d THEN d[key] ELSE default

\* Truth value of a number-or-None in a Python condition: None and zero are
\* both false.
Truthy(opt) == opt # <<>> /\ opt[1] # 0

\* Truth value of a tuple-or-None: a 2-tuple is true, None is false.
TruthyPair(opt) == opt # <<>>

\* measurements[kind].get(det_id), guarded by "kind in measurements".
Lookup(meas, kind, det_id) ==
    IF kind \in DOMAIN meas THEN Get(meas[kind], det_id) ELSE <<>>

\* ------------------------------------------------------------ rule engine
Violation(type, severity, priority, detection) ==
    [type |-> type, severity |-> severity, priority |-> priority,
     bbox |-> detection.bbox]

\* CurbRampLandingBothShort reports a landing only when both of its
\* components are below the minimum.
CurbRampLandingBothShort(detection, meas) ==
    LET det_id      == detection.id
        slope       == Lookup(meas, "slope", det_id)
        cross_slope == Lookup(meas, "cross_slope", det_id)
        landing     == Lookup(meas, "landing_size", det_id)
    IN  (IF "slope" \in DOMAIN meas /\ Truthy(slope) /\ slope[1] > MAX_CURB_RAMP_SLOPE
         THEN <<Violation("Curb Ramp Slope", "High", 1, detection)>> ELSE <<>>)
        \o
        (IF "cross_slope" \in DOMAIN meas /\ Truthy(cross_slope) /\ cross_slope[1] > MAX_CROSS_SLOPE
         THEN <<Violation("Cross Slope", "High", 1, detection)>> ELSE <<>>)
        \o
        (IF "detectable_warning" \in DOMAIN meas
            /\ ~GetDefault(meas["detectable_warning"], det_id, FALSE)
         THEN <<Violation("Detectable Warning", "High", 1, detection)>> ELSE <<>>)
        \o
        (IF "landing_size" \in DOMAIN meas /\ TruthyPair(landing)
            /\ (landing[1][1] < MIN_LANDING_SIZE /\ landing[1][2] < MIN_LANDING_SIZE)
         THEN <<Violation("Landing Size", "Medium", 2, detection)>> ELSE <<>>)

_check_curb_ramp(detection, meas) ==
    LET det_id      == detection.id
        slope       == Lookup(meas, "slope", det_id)
        cross_slope == Lookup(meas, "cross_slope", det_id)
        landing     == Lookup(meas, "landing_size", det_id)
    IN  (IF "slope" \in DOMAIN meas /\ Truthy(slope) /\ slope[1] > MAX_CURB_RAMP_SLOPE
         THEN <<Violation("Curb Ramp Slope", "High", 1, detection)>> ELSE <<>>)
        \o
        (IF "cross_slope" \in DOMAIN meas /\ Truthy(cross_slope) /\ cross_slope[1] > MAX_CROSS_SLOPE
         THEN <<Violation("Cross Slope", "High", 1, detection)>> ELSE <<>>)
        \o
        (IF "detectable_warning" \in DOMAIN meas
            /\ ~GetDefault(meas["detectable_warning"], det_id, FALSE)
         THEN <<Violation("Detectable Warning", "High", 1, detection)>> ELSE <<>>)
        \o
        (IF "landing_size" \in DOMAIN meas /\ TruthyPair(landing)
            /\ (landing[1][1] < MIN_LANDING_SIZE \/ landing[1][2] < MIN_LANDING_SIZE)
         THEN <<Violation("Landing Size", "Medium", 2, detection)>> ELSE <<>>)

\* SidewalkAbsentAsZero reads the width with .get(det_id, 0) and compares it
\* without the truth test, so an absent width counts as a width of zero.
SidewalkAbsentAsZero(detection, meas) ==
    LET det_id      == detection.id
        cross_slope == Lookup(meas, "cross_slope", det_id)
    IN  (IF "width" \in DOMAIN meas
            /\ GetDefault(meas["width"], det_id, 0) < MIN_SIDEWALK_WIDTH
         THEN <<Violation("Sidewalk Width", "Medium", 2, detection)>> ELSE <<>>)
        \o
        (IF "cross_slope" \in DOMAIN meas /\ Truthy(cross_slope) /\ cross_slope[1] > MAX_CROSS_SLOPE
         THEN <<Violation("Cross Slope", "High", 1, detection)>> ELSE <<>>)

_check_sidewalk(detection, meas) ==
    LET det_id      == detection.id
        width       == Lookup(meas, "width", det_id)
        cross_slope == Lookup(meas, "cross_slope", det_id)
    IN  (IF "width" \in DOMAIN meas /\ Truthy(width) /\ width[1] < MIN_SIDEWALK_WIDTH
         THEN <<Violation("Sidewalk Width", "Medium", 2, detection)>> ELSE <<>>)
        \o
        (IF "cross_slope" \in DOMAIN meas /\ Truthy(cross_slope) /\ cross_slope[1] > MAX_CROSS_SLOPE
         THEN <<Violation("Cross Slope", "High", 1, detection)>> ELSE <<>>)

_check_crosswalk(detection, meas) ==
    LET det_id  == detection.id
        quality == Lookup(meas, "marking_quality", det_id)
    IN  (IF "has_curb_ramps" \in DOMAIN meas
            /\ ~GetDefault(meas["has_curb_ramps"], det_id, FALSE)
         THEN <<Violation("Missing Curb Ramps", "High", 1, detection)>> ELSE <<>>)
        \o
        (IF "marking_quality" \in DOMAIN meas /\ Truthy(quality) /\ quality[1] < MIN_MARKING_QUALITY
         THEN <<Violation("Crosswalk Markings", "Medium", 2, detection)>> ELSE <<>>)

\* SurfaceQualityNonStrict compares the gap with >= instead of >.
SurfaceQualityNonStrict(detection, meas) ==
    LET det_id   == detection.id
        max_gap  == Lookup(meas, "max_gap", det_id)
        vertical == Lookup(meas, "vertical_change", det_id)
    IN  (IF "max_gap" \in DOMAIN meas /\ Truthy(max_gap) /\ max_gap[1] >= MAX_SURFACE_GAP
         THEN <<Violation("Surface Quality", "Medium", 3, detection)>> ELSE <<>>)
        \o
        (IF "vertical_change" \in DOMAIN meas /\ Truthy(vertical) /\ vertical[1] > MAX_VERTICAL_CHANGE
         THEN <<Violation("Trip Hazard", "High", 1, detection)>> ELSE <<>>)

_check_surface_quality(detection, meas) ==
    LET det_id   == detection.id
        max_gap  == Lookup(meas, "max_gap", det_id)
        vertical == Lookup(meas, "vertical_change", det_id)
    IN  (IF "max_gap" \in DOMAIN meas /\ Truthy(max_gap) /\ max_gap[1] > MAX_SURFACE_GAP
         THEN <<Violation("Surface Quality", "Medium", 3, detection)>> ELSE <<>>)
        \o
        (IF "vertical_change" \in DOMAIN meas /\ Truthy(vertical) /\ vertical[1] > MAX_VERTICAL_CHANGE
         THEN <<Violation("Trip Hazard", "High", 1, detection)>> ELSE <<>>)

\* CheckDetectionAllBranches tests every class with an if of its own, so a
\* name matching two classes is checked under both.
CheckDetectionAllBranches(detection, meas) ==
    LET class_name == detection.class_name
    IN  (IF Contains(class_name, "curb") \/ Contains(class_name, "ramp")
         THEN _check_curb_ramp(detection, meas) ELSE <<>>)
        \o
        (IF Contains(class_name, "sidewalk") \/ Contains(class_name, "path")
         THEN _check_sidewalk(detection, meas) ELSE <<>>)
        \o
        (IF Contains(class_name, "crosswalk") \/ Contains(class_name, "crossing")
         THEN _check_crosswalk(detection, meas) ELSE <<>>)
        \o
        (IF Contains(class_name, "surface")
         THEN _check_surface_quality(detection, meas) ELSE <<>>)

\* The if/elif chain of evaluate's loop body: the violations of one detection.
CheckDetection(detection, meas) ==
    LET class_name == detection.class_name
    IN  IF Contains(class_name, "curb") \/ Contains(class_name, "ramp")
        THEN _check_curb_ramp(detection, meas)
        ELSE IF Contains(class_name, "sidewalk") \/ Contains(class_name, "path")
        THEN _check_sidewalk(detection, meas)
        ELSE IF Contains(class_name, "crosswalk") \/ Contains(class_name, "crossing")
        THEN _check_crosswalk(detection, meas)
        ELSE IF Contains(class_name, "surface")
        THEN _check_surface_quality(detection, meas)
        ELSE <<>>

cost_estimates(viol_type) ==
    CASE viol_type = "Curb Ramp Slope"    -> 2500
      [] viol_type = "Cross Slope"        -> 3200
      [] viol_type = "Sidewalk Width"     -> 1800
      [] viol_type = "Detectable Warning" -> 800
      [] viol_type = "Surface Quality"    -> 2200
      [] viol_type = "Landing Size"       -> 1500
      [] viol_type = "Missing Curb Ramps" -> 3500
      [] viol_type = "Crosswalk Markings" -> 400
      [] viol_type = "Trip Hazard"        -> 1200
      [] OTHER                            -> 1000

SeverityPriority(severity) ==
    IF severity = "High" THEN 1 ELSE IF severity = "Medium" THEN 2 ELSE 3

\* The loop body of _prioritize_violations: attach the cost, and the
\* priority when the record has none.
WithCostAndPriority(violation) ==
    [type     |-> violation.type,
     severity |-> violation.severity,
     priority |-> IF "priority" \in DOMAIN violation THEN violation.priority
                  ELSE SeverityPriority(violation.severity),
     bbox     |-> violation.bbox,
     cost     |-> cost_estimates(violation.type)]

\* KeyLEByCostOnly leaves the priority out of the key.
KeyLEByCostOnly(a, b) == (0 - a.cost) <= (0 - b.cost)

\* The sort key (priority, -cost), compared as Python compares tuples.
KeyLE(a, b) ==
    \/ a.priority < b.priority
    \/ a.priority = b.priority /\ (0 - a.cost) <= (0 - b.cost)

\* SortedInsertBeforeEquals puts an element before the elements whose key
\* equals its own, which reverses the order of equal keys.
SortedInsertBeforeEquals(sorted, v) ==
    LET n == Cardinality({i \in 1 .. Len(sorted) : KeyLE(sorted[i], v) /\ ~KeyLE(v, sorted[i])})
    IN  SubSeq(sorted, 1, n) \o <<v>> \o SubSeq(sorted, n + 1, Len(sorted))

\* list.sort is stable: an element goes after every element whose key is
\* not greater than its own.
SortedInsert(sorted, v) ==
    LET n == Cardinality({i \in 1 .. Len(sorted) : KeyLE(sorted[i], v)})
    IN  SubSeq(sorted, 1, n) \o <<v>> \o SubSeq(sorted, n + 1, Len(sorted))

RECURSIVE StableSort(_)
StableSort(s) ==
    IF s = <<>> THEN <<>>
    ELSE SortedInsert(StableSort(SubSeq(s, 1, Len(s) - 1)), s[Len(s)])

_prioritize_violations(vs) ==
    StableSort([i \in 1 .. Len(vs) |-> WithCostAndPriority(vs[i])])

RECURSIVE CheckAll(_, _)
CheckAll(dets, meas) ==
    IF dets = <<>> THEN <<>>
    ELSE CheckDetection(Head(dets), meas) \o CheckAll(Tail(dets), meas)

evaluate(meas, dets) == _prioritize_violations(CheckAll(dets, meas))

\* ----------------------------------------------------------------- scorer
severity_weights(severity) ==
    CASE severity = "High" -> 3 [] severity = "Medium" -> 2 [] severity = "Low" -> 1

RECURSIVE SumWeights(_)
SumWeights(vs) ==
    IF vs = <<>> THEN 0 ELSE severity_weights(Head(vs).severity) + SumWeights(Tail(vs))

\* ScoreUnclamped omits the final max(0, min(100, score)).
Max2(a, b) == IF a >= b THEN a ELSE b
Min2(a, b) == IF a <= b THEN a ELSE b

\* IntPercentRounded rounds the quotient to the nearest integer instead.
\* int((total_weight / max_possible_weight) * 100): int() truncates toward
\* zero; both operands are non-negative, so this is the integer quotient.
\* (The double product agrees with the exact quotient whenever there are
\* fewer than 50 detections and the quotient is at most 100; beyond 100 the
\* score is clamped to 0 either way.)
IntPercentRounded(total_weight, max_possible_weight) ==
    (2 * total_weight * 100 + max_possible_weight) \div (2 * max_possible_weight)

IntPercent(total_weight, max_possible_weight) ==
    (total_weight * 100) \div max_possible_weight

ScoreUnclamped(vs, dets) ==
    IF Len(dets) = 0 THEN 100
    ELSE 100 - IntPercent(SumWeights(vs), Len(dets) * 3)

\* ScoreNotInverted returns the violation percentage itself instead of its
\* complement.
ScoreNotInverted(vs, dets) ==
    IF Len(dets) = 0 THEN 100
    ELSE Max2(0, Min2(100, IntPercent(SumWeights(vs), Len(dets) * 3)))

_calculate_compliance_score(vs, dets) ==
    IF Len(dets) = 0 THEN 100
    ELSE LET total_weight        == SumWeights(vs)
             max_possible_weight == Len(dets) * 3
         IN  IF max_possible_weight = 0 THEN 100
             ELSE Max2(0, Min2(100, 100 - IntPercent(total_weight, max_possible_weight)))

\* --------------------------------------------------------- cost estimator
BaseCostTypes ==
    {"Curb Ramp Slope", "Cross Slope", "Sidewalk Width", "Detectable Warning",
     "Surface Quality", "Landing Size", "Missing Curb Ramps",
     "Crosswalk Markings", "Trip Hazard"}

\* BASE_COSTS[viol_type]: the typical cost, the unit and the labor hours.
\* BaseCostsDivergent prices a detectable warning at 8000, unlike the
\* table of the rule engine.
BaseCostsDivergent(viol_type) ==
    CASE viol_type = "Curb Ramp Slope"    -> [typical |-> 2500, unit |-> "per ramp", labor_hours |-> 16]
      [] viol_type = "Cross Slope"        -> [typical |-> 3200, unit |-> "per section", labor_hours |-> 20]
      [] viol_type = "Sidewalk Width"     -> [typical |-> 1800, unit |-> "per linear foot", labor_hours |-> 12]
      [] viol_type = "Detectable Warning" -> [typical |-> 8000, unit |-> "per installation", labor_hours |-> 4]
      [] viol_type = "Surface Quality"    -> [typical |-> 2200, unit |-> "per section", labor_hours |-> 14]
      [] viol_type = "Landing Size"       -> [typical |-> 1500, unit |-> "per landing", labor_hours |-> 10]
      [] viol_type = "Missing Curb Ramps" -> [typical |-> 3500, unit |-> "per ramp", labor_hours |-> 24]
      [] viol_type = "Crosswalk Markings" -> [typical |-> 400, unit |-> "per crossing", labor_hours |-> 2]
      [] viol_type = "Trip Hazard"        -> [typical |-> 1200, unit |-> "per repair", labor_hours |-> 8]

BASE_COSTS(viol_type) ==
    CASE viol_type = "Curb Ramp Slope"    -> [typical |-> 2500, unit |-> "per ramp", labor_hours |-> 16]
      [] viol_type = "Cross Slope"        -> [typical |-> 3200, unit |-> "per section", labor_hours |-> 20]
      [] viol_type = "Sidewalk Width"     -> [typical |-> 1800, unit |-> "per linear foot", labor_hours |-> 12]
      [] viol_type = "Detectable Warning" -> [typical |-> 800, unit |-> "per installation", labor_hours |-> 4]
      [] viol_type = "Surface Quality"    -> [typical |-> 2200, unit |-> "per section", labor_hours |-> 14]
      [] viol_type = "Landing Size"       -> [typical |-> 1500, unit |-> "per landing", labor_hours |-> 10]
      [] viol_type = "Missing Curb Ramps" -> [typical |-> 3500, unit |-> "per ramp", labor_hours |-> 24]
      [] viol_type = "Crosswalk Markings" -> [typical |-> 400, unit |-> "per crossing", labor_hours |-> 2]
      [] viol_type = "Trip Hazard"        -> [typical |-> 1200, unit |-> "per repair", labor_hours |-> 8]

\* ComplexityFactorsNoDefault yields 0 for a key outside the table.
ComplexityFactorsNoDefault(key) ==
    CASE key = "urban_high_traffic" -> 13
      [] key = "historic_district"  -> 15
      [] key = "utility_conflicts"  -> 14
      [] key = "drainage_issues"    -> 12
      [] key = "standard"           -> 10
      [] OTHER                      -> 0

\* COMPLEXITY_FACTORS.get(complexity, 1.0), in tenths.
COMPLEXITY_FACTORS(key) ==
    CASE key = "urban_high_traffic" -> 13
      [] key = "historic_district"  -> 15
      [] key = "utility_conflicts"  -> 14
      [] key = "drainage_issues"    -> 12
      [] key = "standard"           -> 10
      [] OTHER                      -> 10

DEFAULT_COST == 1000
DEFAULT_LABOR_HOURS == 8

\* int(base_cost * multiplier): the multiplier is in tenths, the product is
\* non-negative, int() truncates.  (For the nine typical costs and the five
\* multipliers the double product is the exact integer.)
AdjustedCost(base_cost, multiplier) == (base_cost * multiplier) \div 10

\* ContingencyRounded rounds the product to the nearest integer;
\* ContingencyTenPercent takes 10% instead of 12%.
ContingencyRounded(total_cost) == (total_cost * 12 + 50) \div 100

ContingencyTenPercent(total_cost) == (total_cost * 10) \div 100

\* int(total_cost * 0.12), truncated.  (The double product truncates to the
\* exact integer quotient for every total up to 60000.)
Contingency(total_cost) == (total_cost * 12) \div 100

\* The record after violation['cost'] = ... and violation['labor_hours'] = ...
SetCostAndLabor(violation, cost, labor_hours) ==
    [k \in DOMAIN violation \cup {"cost", "labor_hours"} |->
        IF k = "cost" THEN cost
        ELSE IF k = "labor_hours" THEN labor_hours
        ELSE violation[k]]

\* EstimateOneScaledDefault applies the multiplier to the default cost too.
EstimateOneScaledDefault(violation, multiplier) ==
    IF violation.type \in BaseCostTypes
    THEN LET cost_info     == BASE_COSTS(violation.type)
             adjusted_cost == AdjustedCost(cost_info.typical, multiplier)
         IN  [violation   |-> SetCostAndLabor(violation, adjusted_cost, cost_info.labor_hours),
              breakdown   |-> <<[type        |-> violation.type,
                                 cost        |-> adjusted_cost,
                                 unit        |-> cost_info.unit,
                                 labor_hours |-> cost_info.labor_hours,
                                 priority    |-> GetDefault(violation, "priority", 2)]>>,
              cost        |-> adjusted_cost,
              labor_hours |-> cost_info.labor_hours]
    ELSE [violation   |-> SetCostAndLabor(violation, AdjustedCost(DEFAULT_COST, multiplier), DEFAULT_LABOR_HOURS),
          breakdown   |-> <<>>,
          cost        |-> AdjustedCost(DEFAULT_COST, multiplier),
          labor_hours |-> DEFAULT_LABOR_HOURS]

\* EstimateOneFromAttachedCost scales the cost the record already carries
\* (the table's typical cost when it carries none).
EstimateOneFromAttachedCost(violation, multiplier) ==
    IF violation.type \in BaseCostTypes
    THEN LET cost_info     == BASE_COSTS(violation.type)
             adjusted_cost == AdjustedCost(GetDefault(violation, "cost", cost_info.typical), multiplier)
         IN  [violation   |-> SetCostAndLabor(violation, adjusted_cost, cost_info.labor_hours),
              breakdown   |-> <<[type        |-> violation.type,
                                 cost        |-> adjusted_cost,
                                 unit        |-> cost_info.unit,
                                 labor_hours |-> cost_info.labor_hours,
                                 priority    |-> GetDefault(violation, "priority", 2)]>>,
              cost        |-> adjusted_cost,
              labor_hours |-> cost_info.labor_hours]
    ELSE [violation   |-> SetCostAndLabor(violation, DEFAULT_COST, DEFAULT_LABOR_HOURS),
          breakdown   |-> <<>>,
          cost        |-> DEFAULT_COST,
          labor_hours |-> DEFAULT_LABOR_HOURS]

\* The loop body of estimate, lines 130-160, for one violation.
EstimateOne(violation, multiplier) ==
    IF violation.type \in BaseCostTypes
    THEN LET cost_info     == BASE_COSTS(violation.type)
             adjusted_cost == AdjustedCost(cost_info.typical, multiplier)
         IN  [violation   |-> SetCostAndLabor(violation, adjusted_cost, cost_info.labor_hours),
              breakdown   |-> <<[type        |-> violation.type,
                                 cost        |-> adjusted_cost,
                                 unit        |-> cost_info.unit,
                                 labor_hours |-> cost_info.labor_hours,
                                 priority    |-> GetDefault(violation, "priority", 2)]>>,
              cost        |-> adjusted_cost,
              labor_hours |-> cost_info.labor_hours]
    ELSE [violation   |-> SetCostAndLabor(violation, DEFAULT_COST, DEFAULT_LABOR_HOURS),
          breakdown   |-> <<>>,
          cost        |-> DEFAULT_COST,
          labor_hours |-> DEFAULT_LABOR_HOURS]

\* EstimateTimelineTwelveWeeksInclusive still reports a range of months at
\* exactly twelve weeks.
EstimateTimelineTwelveWeeksInclusive(hours, num_violations) ==
    LET num == 12 * hours
    IN  IF num < 875 THEN <<num \div 175, "days">>
        ELSE IF num < 4 * 875 THEN <<num \div 875, "weeks">>
        ELSE IF num <= 12 * 875 THEN <<num \div (4 * 875), (num \div (4 * 875)) + 1, "months">>
        ELSE <<num \div (4 * 875), "months">>

\* _estimate_timeline.  work_days = H / 17.5 * 1.2 = 12H / 175 and
\* work_weeks = work_days / 5 = 12H / 875; int() truncates.  The label
\* "N days" is <<N, "days">>, "N weeks" is <<N, "weeks">>, "M-(M+1) months"
\* is <<M, M + 1, "months">>, "M months" is <<M, "months">>.  (The double
\* computation gives the exact label for every total below 3000 hours.)
_estimate_timeline(total_labor_hours, num_violations) ==
    LET num == 12 * total_labor_hours
    IN  IF num < 875 THEN <<num \div 175, "days">>
        ELSE IF num < 4 * 875 THEN <<num \div 875, "weeks">>
        ELSE IF num < 12 * 875 THEN <<num \div (4 * 875), (num \div (4 * 875)) + 1, "months">>
        ELSE <<num \div (4 * 875), "months">>

RECURSIVE EstimateLoop(_, _)
EstimateLoop(vs, multiplier) ==
    IF vs = <<>>
    THEN [violations |-> <<>>, breakdown |-> <<>>, total_cost |-> 0, total_labor_hours |-> 0]
    ELSE LET one  == EstimateOne(Head(vs), multiplier)
             rest == EstimateLoop(Tail(vs), multiplier)
         IN  [violations        |-> <<one.violation>> \o rest.violations,
              breakdown         |-> one.breakdown \o rest.breakdown,
              total_cost        |-> one.cost + rest.total_cost,
              total_labor_hours |-> one.labor_hours + rest.total_labor_hours]

\* estimate: "result" is the returned dictionary, "violations" the argument
\* list as the call leaves it (the records are updated in place).
estimate(vs, key) ==
    IF vs = <<>>
    THEN [violations |-> vs,
          result     |-> [total_cost  |-> 0,
                          timeline    |-> <<"N/A">>,
                          breakdown   |-> <<>>,
                          labor_hours |-> 0]]
    ELSE LET multiplier == COMPLEXITY_FACTORS(key)
             loop       == EstimateLoop(vs, multiplier)
             contingency == Contingency(loop.total_cost)
         IN  [violations |-> loop.violations,
              result     |-> [total_cost             |-> loop.total_cost,
                              contingency            |-> contingency,
                              total_with_contingency |-> loop.total_cost + contingency,
                              timeline               |-> _estimate_timeline(loop.total_labor_hours, Len(vs)),
                              breakdown              |-> loop.breakdown,
                              labor_hours            |-> loop.total_labor_hours,
                              complexity_factor      |-> multiplier]]

\* ------------------------------------------------------- cost summary
RECURSIVE SumCostWhere(_, _, _)
SumCostWhere(vs, field, value) ==
    IF vs = <<>> THEN 0
    ELSE (IF Head(vs)[field] = value THEN GetDefault(Head(vs), "cost", 0) ELSE 0)
         + SumCostWhere(Tail(vs), field, value)

SeverityOf(violation) == GetDefault(violation, "severity", "Medium")

\* The totals per severity, lines 286-291; a severity outside the three
\* keys has no entry to add to.
BySeverity(vs) ==
    [sev \in {"High", "Medium", "Low"} |->
        SumCostWhere([i \in 1 .. Len(vs) |-> [severity |-> SeverityOf(vs[i]),
                                              cost     |-> GetDefault(vs[i], "cost", 0)]],
                     "severity", sev)]

\* The totals per type, lines 293-298.
ByType(vs) ==
    [t \in {vs[i].type : i \in 1 .. Len(vs)} |-> SumCostWhere(vs, "type", t)]

KeyError(key) == [error |-> "KeyError", key |-> key]

\* generate_cost_summary: "result" is the returned dictionary, or the
\* KeyError raised by a subscript of a key the dictionary lacks;
\* "violations" is the argument list as the call leaves it.  The quotient
\* roi_payback_years is kept as <<numerator, denominator>>.
generate_cost_summary(vs) ==
    LET analysis == estimate(vs, "standard")
        est      == analysis.result
        after    == analysis.violations
        non_compliance_cost == Len(vs) * 5000
    IN  [violations |-> after,
         result |->
            IF \E i \in 1 .. Len(after) : SeverityOf(after[i]) \notin {"High", "Medium", "Low"}
            THEN KeyError("severity")
            ELSE IF "total_with_contingency" \notin DOMAIN est
            THEN KeyError("total_with_contingency")
            ELSE [total_violations       |-> Len(vs),
                  total_cost             |-> est.total_cost,
                  total_with_contingency |-> est.total_with_contingency,
                  timeline               |-> est.timeline,
                  by_severity            |-> BySeverity(after),
                  by_type                |-> ByType(after),
                  labor_hours            |-> est.labor_hours,
                  non_compliance_risk    |-> non_compliance_cost,
                  roi_payback_years      |-> <<est.total_cost, Max2(non_compliance_cost, 1)>>]]

\* ------------------------------------------------------ phased approach
\* PhaseKeyLEPriorityOnly compares the priorities alone.
PhaseKeyLEPriorityOnly(a, b) ==
    GetDefault(a, "priority", 3) <= GetDefault(b, "priority", 3)

\* The sort key of estimate_phased_approach,
\* (x.get('priority', 3), -x.get('cost', 0)).
PhaseKeyLE(a, b) ==
    \/ GetDefault(a, "priority", 3) < GetDefault(b, "priority", 3)
    \/ /\ GetDefault(a, "priority", 3) = GetDefault(b, "priority", 3)
       /\ (0 - GetDefault(a, "cost", 0)) <= (0 - GetDefault(b, "cost", 0))

\* sorted() is stable, like list.sort.
PhaseSortedInsert(sorted, v) ==
    LET n == Cardinality({i \in 1 .. Len(sorted) : PhaseKeyLE(sorted[i], v)})
    IN  SubSeq(sorted, 1, n) \o <<v>> \o SubSeq(sorted, n + 1, Len(sorted))

RECURSIVE PhaseStableSort(_)
PhaseStableSort(s) ==
    IF s = <<>> THEN <<>>
    ELSE PhaseSortedInsert(PhaseStableSort(SubSeq(s, 1, Len(s) - 1)), s[Len(s)])

\* SortedViolationsInputOrder leaves the list in the order it was given.
SortedViolationsInputOrder(vs) == vs

sorted_violations(vs) == PhaseStableSort(vs)

\* The state of the allocation loop before its first iteration.
PhaseStart(budget_constraint) ==
    [phases           |-> <<>>,
     current_phase    |-> [violations |-> <<>>, cost |-> 0, phase_number |-> 1],
     remaining_budget |-> budget_constraint]

\* PhaseStepResetFull gives a new phase the whole budget, without taking
\* the cost of the violation that seeds it.
PhaseStepResetFull(st, violation, budget_constraint) ==
    LET cost == GetDefault(violation, "cost", 0)
    IN  IF cost <= st.remaining_budget
        THEN [phases           |-> st.phases,
              current_phase    |-> [violations   |-> Append(st.current_phase.violations, violation),
                                    cost         |-> st.current_phase.cost + cost,
                                    phase_number |-> st.current_phase.phase_number],
              remaining_budget |-> st.remaining_budget - cost]
        ELSE IF st.current_phase.violations # <<>>
             THEN [phases           |-> Append(st.phases, st.current_phase),
                   current_phase    |-> [violations   |-> <<violation>>,
                                         cost         |-> cost,
                                         phase_number |-> Len(st.phases) + 2],
                   remaining_budget |-> budget_constraint]
             ELSE st

\* PhaseStepNumberBeforeAppend numbers a new phase by the phases closed
\* before the current one is closed.
PhaseStepNumberBeforeAppend(st, violation, budget_constraint) ==
    LET cost == GetDefault(violation, "cost", 0)
    IN  IF cost <= st.remaining_budget
        THEN [phases           |-> st.phases,
              current_phase    |-> [violations   |-> Append(st.current_phase.violations, violation),
                                    cost         |-> st.current_phase.cost + cost,
                                    phase_number |-> st.current_phase.phase_number],
              remaining_budget |-> st.remaining_budget - cost]
        ELSE IF st.current_phase.violations # <<>>
             THEN [phases           |-> Append(st.phases, st.current_phase),
                   current_phase    |-> [violations   |-> <<violation>>,
                                         cost         |-> cost,
                                         phase_number |-> Len(st.phases) + 1],
                   remaining_budget |-> budget_constraint - cost]
             ELSE st

\* One iteration of the allocation loop, lines 243-259. A violation that
\* does not fit while the current phase is still empty falls through both
\* branches: nothing is assigned.
PhaseStep(st, violation, budget_constraint) ==
    LET cost == GetDefault(violation, "cost", 0)
    IN  IF cost <= st.remaining_budget
        THEN [phases           |-> st.phases,
              current_phase    |-> [violations   |-> Append(st.current_phase.violations, violation),
                                    cost         |-> st.current_phase.cost + cost,
                                    phase_number |-> st.current_phase.phase_number],
              remaining_budget |-> st.remaining_budget - cost]
        ELSE IF st.current_phase.violations # <<>>
             THEN [phases           |-> Append(st.phases, st.current_phase),
                   current_phase    |-> [violations   |-> <<violation>>,
                                         cost         |-> cost,
                                         phase_number |-> Len(st.phases) + 2],
                   remaining_budget |-> budget_constraint - cost]
             ELSE st

RECURSIVE PhaseLoop(_, _, _)
PhaseLoop(st, vs, budget_constraint) ==
    IF vs = <<>> THEN st
    ELSE PhaseLoop(PhaseStep(st, Head(vs), budget_constraint), Tail(vs), budget_constraint)

estimate_phased_approach(vs, budget_constraint) ==
    LET st     == PhaseLoop(PhaseStart(budget_constraint), sorted_violations(vs), budget_constraint)
        phases == IF st.current_phase.violations # <<>>
                  THEN Append(st.phases, st.current_phase)
                  ELSE st.phases
    IN  [phases       |-> phases,
         total_phases |-> Len(phases),
         fully_funded |-> st.remaining_budget >= 0]

\* ---------------------------------------------------------------- actions
EmptyDict == <<>>

Init ==
    /\ pc = "idle"
    /\ detections = <<>>
    /\ measurements = EmptyDict
    /\ violations = <<>>
    /\ score = NoScore
    /\ given = <<>>
    /\ complexity = "standard"
    /\ cost_analysis = <<>>
    /\ budget = 0
    /\ plan = <<>>
    /\ summary = <<>>
    /\ hours_given = 0
    /\ timeline = <<>>

\* analyze, lines 94-106: the detector and the extractor supply the inputs,
\* evaluate returns the prioritized violations, the scorer grades them and
\* estimate, with its default complexity, costs them in place.
Analyze ==
    /\ pc = "idle"
    /\ \E dets \in DetectionLists, meas \in MeasurementSets :
          LET result   == evaluate(meas, dets)
              analysis == estimate(result, "standard")
          IN  /\ detections' = dets
              /\ measurements' = meas
              /\ violations' = analysis.violations
              /\ score' = _calculate_compliance_score(result, dets)
              /\ cost_analysis' = analysis.result
    /\ pc' = "analyzed"
    /\ UNCHANGED <<given, complexity, budget, plan, summary, hours_given, timeline>>

Next == Analyze

Spec == Init /\ [][Next]_vars

\* A direct call of _calculate_compliance_score on the violation and
\* detection lists at hand.
CalculateScore ==
    /\ pc = "called"
    /\ score' = _calculate_compliance_score(violations, detections)
    /\ pc' = "scored"
    /\ UNCHANGED <<detections, measurements, violations, given, complexity,
                   cost_analysis, budget, plan, summary, hours_given, timeline>>

\* The scorer as a function of its own: any violation list with severities
\* High/Medium/Low and any detection list.
ScorerViolations == {[type |-> "Trip Hazard", severity |-> s, priority |-> SeverityPriority(s), bbox |-> 1, cost |-> 1200] : s \in {"High", "Medium", "Low"}}

InitScore ==
    /\ pc = "called"
    /\ detections \in {DetectionList(names) : names \in SeqsUpTo({"pole"}, MaxScoreDets)}
    /\ measurements = EmptyDict
    /\ violations \in SeqsUpTo(ScorerViolations, MaxScoreViols)
    /\ score = NoScore
    /\ given = violations
    /\ complexity = "standard"
    /\ cost_analysis = <<>>
    /\ budget = 0
    /\ plan = <<>>
    /\ summary = <<>>
    /\ hours_given = 0
    /\ timeline = <<>>

NextScore == CalculateScore

SpecScore == InitScore /\ [][NextScore]_vars

\* _prioritize_violations called on its own: records as the rule engine
\* creates them (type, severity, priority, bbox) for two bounding boxes, and
\* records of a type outside the cost table that carry no priority.
PrioritizerInputs ==
    {Violation(t[1], t[2], t[3], [bbox |-> b]) :
        t \in {<<"Curb Ramp Slope", "High", 1>>, <<"Cross Slope", "High", 1>>,
               <<"Landing Size", "Medium", 2>>, <<"Surface Quality", "Medium", 3>>},
        b \in 1 .. 2}
    \cup {[type |-> "Obstruction", severity |-> sev, bbox |-> 1] : sev \in {"High", "Low"}}

InitPrioritize ==
    /\ pc = "prioritize"
    /\ detections = <<>>
    /\ measurements = EmptyDict
    /\ violations \in SeqsUpTo(PrioritizerInputs, MaxPrioViols)
    /\ score = NoScore
    /\ given = violations
    /\ complexity = "standard"
    /\ cost_analysis = <<>>
    /\ budget = 0
    /\ plan = <<>>
    /\ summary = <<>>
    /\ hours_given = 0
    /\ timeline = <<>>

Prioritize ==
    /\ pc = "prioritize"
    /\ violations' = _prioritize_violations(violations)
    /\ pc' = "prioritized"
    /\ UNCHANGED <<detections, measurements, score, given, complexity,
                   cost_analysis, budget, plan, summary, hours_given, timeline>>

NextPrioritize == Prioritize

SpecPrioritize == InitPrioritize /\ [][NextPrioritize]_vars

\* estimate called on its own: records as the prioritizer returns them, one
\* per type of the cost table and one of a type outside it, under the five
\* complexity keys and one key outside the table.
EstimatorInputs ==
    {WithCostAndPriority(Violation(t[1], t[2], t[3], [bbox |-> 1])) :
        t \in {<<"Curb Ramp Slope", "High", 1>>, <<"Cross Slope", "High", 1>>,
               <<"Sidewalk Width", "Medium", 2>>, <<"Detectable Warning", "High", 1>>,
               <<"Surface Quality", "Medium", 3>>, <<"Landing Size", "Medium", 2>>,
               <<"Missing Curb Ramps", "High", 1>>, <<"Crosswalk Markings", "Medium", 2>>,
               <<"Trip Hazard", "High", 1>>, <<"Obstruction", "Low", 3>>}}

ComplexityKeys ==
    {"standard", "urban_high_traffic", "historic_district", "utility_conflicts",
     "drainage_issues", "rural"}

InitEstimate ==
    /\ pc = "estimate"
    /\ detections = <<>>
    /\ measurements = EmptyDict
    /\ violations \in SeqsUpTo(EstimatorInputs, MaxEstViols)
    /\ score = NoScore
    /\ given = violations
    /\ complexity \in ComplexityKeys
    /\ cost_analysis = <<>>
    /\ budget = 0
    /\ plan = <<>>
    /\ summary = <<>>
    /\ hours_given = 0
    /\ timeline = <<>>

Estimate ==
    /\ pc = "estimate"
    /\ LET analysis == estimate(violations, complexity)
       IN  /\ violations' = analysis.violations
           /\ cost_analysis' = analysis.result
    /\ pc' = "estimated"
    /\ UNCHANGED <<detections, measurements, score, given, complexity, budget, plan,
                   summary, hours_given, timeline>>

NextEstimate == Estimate

SpecEstimate == InitEstimate /\ [][NextEstimate]_vars

\* estimate_phased_approach called on its own. The records carry the cost
\* and priority the earlier stages attach; one record carries neither, so
\* both .get defaults are read. The function accepts any number as budget.
PhasedInputs ==
    {[type |-> "Missing Curb Ramps", priority |-> 1, cost |-> 3500],
     [type |-> "Curb Ramp Slope", priority |-> 1, cost |-> 2500],
     [type |-> "Detectable Warning", priority |-> 1, cost |-> 800],
     [type |-> "Sidewalk Width", priority |-> 2, cost |-> 1800],
     [type |-> "Crosswalk Markings", priority |-> 2, cost |-> 800],
     [type |-> "Obstruction"]}

Budgets == {0 - 1000, 0, 1000, 4000}

InitPhased ==
    /\ pc = "phase"
    /\ detections = <<>>
    /\ measurements = EmptyDict
    /\ violations \in SeqsUpTo(PhasedInputs, MaxPhaseViols)
    /\ score = NoScore
    /\ given = violations
    /\ complexity = "standard"
    /\ cost_analysis = <<>>
    /\ budget \in Budgets
    /\ plan = <<>>
    /\ summary = <<>>
    /\ hours_given = 0
    /\ timeline = <<>>

EstimatePhased ==
    /\ pc = "phase"
    /\ plan' = estimate_phased_approach(violations, budget)
    /\ pc' = "phased"
    /\ UNCHANGED <<detections, measurements, violations, score, given, complexity,
                   cost_analysis, budget, summary, hours_given, timeline>>

NextPhased == EstimatePhased

SpecPhased == InitPhased /\ [][NextPhased]_vars

\* generate_cost_summary called on its own.
InitSummary ==
    /\ pc = "summary"
    /\ detections = <<>>
    /\ measurements = EmptyDict
    /\ violations \in SeqsUpTo(EstimatorInputs, MaxEstViols)
    /\ score = NoScore
    /\ given = violations
    /\ complexity = "standard"
    /\ cost_analysis = <<>>
    /\ budget = 0
    /\ plan = <<>>
    /\ summary = <<>>
    /\ hours_given = 0
    /\ timeline = <<>>

GenerateCostSummary ==
    /\ pc = "summary"
    /\ LET call == generate_cost_summary(violations)
       IN  /\ violations' = call.violations
           /\ summary' = call.result
    /\ pc' = "summarized"
    /\ UNCHANGED <<detections, measurements, score, given, complexity, cost_analysis,
                   budget, plan, hours_given, timeline>>

NextSummary == GenerateCostSummary

SpecSummary == InitSummary /\ [][NextSummary]_vars

\* _estimate_timeline called on its own; it does not read num_violations.
InitTimeline ==
    /\ pc = "timeline"
    /\ detections = <<>>
    /\ measurements = EmptyDict
    /\ violations = <<>>
    /\ score = NoScore
    /\ given = <<>>
    /\ complexity = "standard"
    /\ cost_analysis = <<>>
    /\ budget = 0
    /\ plan = <<>>
    /\ summary = <<>>
    /\ hours_given \in 0 .. MaxHours
    /\ timeline = <<>>

EstimateTimeline ==
    /\ pc = "timeline"
    /\ timeline' = _estimate_timeline(hours_given, 1)
    /\ pc' = "timed"
    /\ UNCHANGED <<detections, measurements, violations, score, given, complexity,
                   cost_analysis, budget, plan, summary, hours_given>>

NextTimeline == EstimateTimeline

SpecTimeline == InitTimeline /\ [][NextTimeline]_vars

\* evaluate followed by estimate under any of the five complexity keys
\* (analyze passes no key; estimate accepts one).
RecognizedKeys ==
    {"standard", "urban_high_traffic", "historic_district", "utility_conflicts",
     "drainage_issues"}

InitPipeline ==
    /\ pc = "pipeline"
    /\ detections \in DetectionLists
    /\ measurements \in MeasurementSets
    /\ violations = <<>>
    /\ score = NoScore
    /\ given = <<>>
    /\ complexity \in RecognizedKeys
    /\ cost_analysis = <<>>
    /\ budget = 0
    /\ plan = <<>>
    /\ summary = <<>>
    /\ hours_given = 0
    /\ timeline = <<>>

EvaluateThenEstimate ==
    /\ pc = "pipeline"
    /\ LET result   == evaluate(measurements, detections)
           analysis == estimate(result, complexity)
       IN  /\ given' = result
           /\ violations' = analysis.violations
           /\ cost_analysis' = analysis.result
    /\ pc' = "piped"
    /\ UNCHANGED <<detections, measurements, score, complexity, budget, plan, summary,
                   hours_given, timeline>>

NextPipeline == EvaluateThenEstimate

SpecPipeline == InitPipeline /\ [][NextPipeline]_vars

\* The scorer called again with one more detection, or with one more
\* violation, than in the call before.
RescoreWithDetection ==
    /\ pc \in {"scored", "rescored"}
    /\ Len(detections) < MaxScoreDets
    /\ detections' = DetectionList([i \in 1 .. Len(detections) + 1 |-> "pole"])
    /\ score' = _calculate_compliance_score(violations, detections')
    /\ pc' = "rescored"
    /\ UNCHANGED <<measurements, violations, given, complexity, cost_analysis, budget,
                   plan, summary, hours_given, timeline>>

RescoreWithViolation ==
    /\ pc \in {"scored", "rescored"}
    /\ Len(violations) < MaxScoreViols
    /\ \E v \in ScorerViolations :
          /\ violations' = Append(violations, v)
          /\ given' = violations'
    /\ score' = _calculate_compliance_score(violations', detections)
    /\ pc' = "rescored"
    /\ UNCHANGED <<detections, measurements, complexity, cost_analysis, budget, plan,
                   summary, hours_given, timeline>>

NextRescore ==
    \/ CalculateScore
    \/ RescoreWithDetection
    \/ RescoreWithViolation

SpecRescore == InitScore /\ [][NextRescore]_vars

\* estimate called a second time on the list the first call has updated,
\* with the same complexity key.
EstimateAgain ==
    /\ pc = "estimated"
    /\ LET analysis == estimate(violations, complexity)
       IN  /\ violations' = analysis.violations
           /\ cost_analysis' = analysis.result
    /\ pc' = "estimated_again"
    /\ UNCHANGED <<detections, measurements, score, given, complexity, budget, plan,
                   summary, hours_given, timeline>>

NextEstimateTwice ==
    \/ Estimate
    \/ EstimateAgain

SpecEstimateTwice == InitEstimate /\ [][NextEstimateTwice]_vars

\* ================================================================= claims
TotalWeight == SumWeights(violations)

Clamp(x) == IF x < 0 THEN 0 ELSE IF x > 100 THEN 100 ELSE x

\* C1: for every violation list with severities High/Medium/Low and every
\* detection list, the score is an integer in [0,100]; it is 100 when the
\* violation list is empty and 100 when the detection list is empty.
C1_ScoreInRange ==
    pc = "scored" =>
        /\ score \in 0 .. 100
        /\ (violations = <<>> => score = 100)
        /\ (detections = <<>> => score = 100)

\* C1 witness: the penalty exceeds 100 (more weight than 3 per detection)
\* and the score is clamped to 0.
C1_Witness ==
    /\ pc = "scored"
    /\ Len(detections) = 1
    /\ TotalWeight > 3
    /\ score = 0

\* round(): nearest integer, ties to the even neighbour.
RoundNearest(num, den) ==
    LET q == num \div den
        r == num % den
    IN  IF 2 * r < den THEN q
        ELSE IF 2 * r > den THEN q + 1
        ELSE IF q % 2 = 0 THEN q ELSE q + 1

\* C2 as stated: with at least one detection the score is
\* 100 - round(100 * total_weight / (3 * count(detections))), rounded to
\* nearest, clamped to [0,100].
C2_ScoreRounds ==
    pc = "scored" /\ Len(detections) >= 1 =>
        score = Clamp(100 - RoundNearest(100 * TotalWeight, 3 * Len(detections)))

\* C2 amended: with at least one detection the score is 100 - q clamped to
\* [0,100], where q is 100 * total_weight / (3 * count(detections))
\* truncated toward zero: q * 3n <= 100 * total_weight < (q + 1) * 3n.
C2_ScoreTruncates ==
    pc = "scored" /\ Len(detections) >= 1 =>
        \E q \in 0 .. 100 * TotalWeight :
            /\ q * 3 * Len(detections) <= 100 * TotalWeight
            /\ 100 * TotalWeight < (q + 1) * 3 * Len(detections)
            /\ score = Clamp(100 - q)

\* C2 witness: weight 2 over one detection, 66.67 truncated to 66 where
\* rounding gives 67.
C2_Witness ==
    /\ pc = "scored"
    /\ Len(detections) = 1
    /\ TotalWeight = 2
    /\ score = 34

\* ------------------------------------------------- rule engine vocabulary
\* The class a detection is evaluated as: the first keyword test of
\* evaluate's chain that its lower-cased name passes.
ClassOf(class_name) ==
    IF Contains(class_name, "curb") \/ Contains(class_name, "ramp") THEN "CurbRamp"
    ELSE IF Contains(class_name, "sidewalk") \/ Contains(class_name, "path") THEN "Sidewalk"
    ELSE IF Contains(class_name, "crosswalk") \/ Contains(class_name, "crossing") THEN "Crosswalk"
    ELSE IF Contains(class_name, "surface") THEN "Surface"
    ELSE "Other"

\* The measurement set holds an entry for this id under this kind.
Present(kind, det_id) ==
    kind \in DOMAIN measurements /\ det_id \in DOMAIN measurements[kind]

\* The result holds a violation of this type for this detection.
HasViolation(type, detection) ==
    \E i \in DOMAIN violations :
        violations[i].type = type /\ violations[i].bbox = detection.bbox

Dets == {detections[i] : i \in DOMAIN detections}

\* The rules as the specification's catalog states them.
MaxRules ==
    {[kind |-> "slope", type |-> "Curb Ramp Slope", threshold |-> 833, classes |-> {"CurbRamp"}],
     [kind |-> "cross_slope", type |-> "Cross Slope", threshold |-> 200, classes |-> {"CurbRamp", "Sidewalk"}],
     [kind |-> "max_gap", type |-> "Surface Quality", threshold |-> 50, classes |-> {"Surface"}],
     [kind |-> "vertical_change", type |-> "Trip Hazard", threshold |-> 25, classes |-> {"Surface"}]}

MinRules ==
    {[kind |-> "width", type |-> "Sidewalk Width", threshold |-> 36, classes |-> {"Sidewalk"}, top |-> 1000],
     [kind |-> "marking_quality", type |-> "Crosswalk Markings", threshold |-> 60, classes |-> {"Crosswalk"}, top |-> 100]}

BooleanRules ==
    {[kind |-> "detectable_warning", type |-> "Detectable Warning", classes |-> {"CurbRamp"}],
     [kind |-> "has_curb_ramps", type |-> "Missing Curb Ramps", classes |-> {"Crosswalk"}]}

PairRules ==
    {[kind |-> "landing_size", type |-> "Landing Size", classes |-> {"CurbRamp"}]}

RuleKindTypes ==
    {[kind |-> r.kind, type |-> r.type, classes |-> r.classes] :
        r \in MaxRules \cup MinRules \cup BooleanRules \cup PairRules}

\* C3: a rule applicable to a detection's class whose measurement kind has
\* no entry for that detection's id yields no violation of that rule for
\* that detection, for the boolean rules as for the numeric ones, also when
\* the kind's map exists but lacks the id.
C3_AbsentNoVerdict ==
    pc = "analyzed" =>
        \A d \in Dets : \A r \in RuleKindTypes :
            ClassOf(d.class_name) \in r.classes /\ ~Present(r.kind, d.id)
                => ~HasViolation(r.type, d)

\* C4: for the MaxThreshold rules (slope 8.33, cross slope 2.0, gap 0.5,
\* vertical change 0.25) the rule's violation is emitted for a detection of
\* an applicable class iff the measurement is present and exceeds the
\* threshold; a value equal to the threshold yields none.
C4_MaxThresholdIff ==
    pc = "analyzed" =>
        \A d \in Dets : \A r \in MaxRules :
            ClassOf(d.class_name) \in r.classes =>
                (HasViolation(r.type, d) <=>
                    Present(r.kind, d.id) /\ measurements[r.kind][d.id] > r.threshold)

\* C4 witness: a surface whose gap equals the threshold, which yields no
\* Surface Quality violation.
C4_Witness ==
    /\ pc = "analyzed"
    /\ \E d \in Dets :
          /\ ClassOf(d.class_name) = "Surface"
          /\ Present("max_gap", d.id) /\ measurements["max_gap"][d.id] = 50
          /\ ~HasViolation("Surface Quality", d)

\* A value inside the physical range of a MinThreshold kind.
InRange(r, v) == 0 <= v /\ v <= r.top

\* C5: for the MinThreshold rules (width 36, marking quality 0.6) the rule's
\* violation is emitted iff the measurement is present and below the
\* threshold, for every present in-range value, a present zero included.
C5_MinThresholdIff ==
    pc = "analyzed" =>
        \A d \in Dets : \A r \in MinRules :
            /\ ClassOf(d.class_name) \in r.classes
            /\ (Present(r.kind, d.id) => InRange(r, measurements[r.kind][d.id]))
            => (HasViolation(r.type, d) <=>
                    Present(r.kind, d.id) /\ measurements[r.kind][d.id] < r.threshold)

\* C6: a present measurement outside the physical range (a negative
\* sidewalk width) yields no violation of its rule for its detection.
C6_OutOfRangeNoVerdict ==
    pc = "analyzed" =>
        \A d \in Dets : \A r \in MinRules :
            /\ ClassOf(d.class_name) \in r.classes
            /\ Present(r.kind, d.id)
            /\ ~InRange(r, measurements[r.kind][d.id])
            => ~HasViolation(r.type, d)

NumericAndPairRules ==
    {r \in RuleKindTypes : r.kind \notin {"detectable_warning", "has_curb_ramps"}}

\* C7: a Sidewalk detection with neither a width nor a cross_slope entry
\* yields no violation at all, and an absent numeric or pair measurement
\* (slope, cross_slope, width, landing_size, max_gap, vertical_change,
\* marking_quality) never yields a violation of its rule.
C7_AbsentNumericNoViolation ==
    pc = "analyzed" =>
        /\ \A d \in Dets :
              /\ ClassOf(d.class_name) = "Sidewalk"
              /\ ~Present("width", d.id)
              /\ ~Present("cross_slope", d.id)
              => \A i \in DOMAIN violations : violations[i].bbox # d.bbox
        /\ \A d \in Dets : \A r \in NumericAndPairRules :
              ClassOf(d.class_name) \in r.classes /\ ~Present(r.kind, d.id)
                  => ~HasViolation(r.type, d)

\* C7 witness: one sidewalk, all nine maps exist, neither the width map nor
\* the cross_slope map holds its id, and the result is empty.
C7_Witness ==
    /\ pc = "analyzed"
    /\ Len(detections) = 1
    /\ detections[1].class_name = "sidewalk"
    /\ DOMAIN measurements = Kinds
    /\ ~Present("width", 1)
    /\ ~Present("cross_slope", 1)
    /\ violations = <<>>

\* C8: one CurbRamp detection whose only measurement is slope = 12.0 yields
\* exactly one violation: Curb Ramp Slope, severity High, priority 1.
C8_SlopeOnlyOneViolation ==
    /\ pc = "analyzed"
    /\ Len(detections) = 1
    /\ ClassOf(detections[1].class_name) = "CurbRamp"
    /\ \A k \in Kinds : Present(k, 1) <=> k = "slope"
    /\ Present("slope", 1) /\ measurements["slope"][1] = 1200
    => /\ Len(violations) = 1
       /\ violations[1].type = "Curb Ramp Slope"
       /\ violations[1].severity = "High"
       /\ violations[1].priority = 1

\* The violation types of each class's rule subset.
RuleSubset(class) ==
    CASE class = "CurbRamp"  -> {"Curb Ramp Slope", "Cross Slope", "Detectable Warning", "Landing Size"}
      [] class = "Sidewalk"  -> {"Sidewalk Width", "Cross Slope"}
      [] class = "Crosswalk" -> {"Missing Curb Ramps", "Crosswalk Markings"}
      [] class = "Surface"   -> {"Surface Quality", "Trip Hazard"}
      [] OTHER               -> {}

\* C9: whatever kinds are populated for its id, a detection yields only
\* violations of its class's rule subset (none for any other class), and is
\* checked under one class only, so no rule fires twice for it.
C9_ClassRuleSubset ==
    pc = "analyzed" =>
        /\ \A i \in DOMAIN violations :
              \E d \in Dets :
                  /\ d.bbox = violations[i].bbox
                  /\ violations[i].type \in RuleSubset(ClassOf(d.class_name))
        /\ \A i, j \in DOMAIN violations :
              violations[i].bbox = violations[j].bbox /\ violations[i].type = violations[j].type
                  => i = j

\* C9 witness: a detection named "sidewalk ramp" is a curb ramp; a narrow
\* width is populated for it in the dictionary of all nine maps, and it
\* yields the curb ramp's Detectable Warning violation only.
C9_Witness ==
    /\ pc = "analyzed"
    /\ Len(detections) = 1
    /\ detections[1].class_name = "sidewalk ramp"
    /\ DOMAIN measurements = Kinds
    /\ Present("width", 1) /\ measurements["width"][1] = 35
    /\ Len(violations) = 1
    /\ violations[1].type = "Detectable Warning"

\* C10: every violation the rule engine creates has the priority of its
\* severity: High 1, Medium 2, Low 3, for all nine violation types.
C10_PriorityMirrorsSeverity ==
    pc = "analyzed" =>
        \A i \in DOMAIN violations :
            violations[i].priority =
                (CASE violations[i].severity = "High"   -> 1
                   [] violations[i].severity = "Medium" -> 2
                   [] violations[i].severity = "Low"    -> 3)

\* C11: after _prioritize_violations every violation has a priority in
\* {1,2,3} and the priorities are non-decreasing along the returned list.
C11_PrioritiesSorted ==
    pc = "prioritized" =>
        /\ \A i \in DOMAIN violations : violations[i].priority \in {1, 2, 3}
        /\ \A i, j \in DOMAIN violations :
              i < j => violations[i].priority <= violations[j].priority

\* C11 witness: a record handed over without a priority comes back with
\* one, and a more urgent record has moved in front of it.
C11_Witness ==
    /\ pc = "prioritized"
    /\ Len(given) = 2
    /\ "priority" \notin DOMAIN given[1]
    /\ violations[2].type = given[1].type
    /\ violations[2].priority = 3
    /\ violations[1].priority = 1

Injective(f) == \A a, b \in DOMAIN f : f[a] = f[b] => a = b

\* C12: _prioritize_violations returns a permutation of its input ordered
\* by (priority ascending, cost descending, original index ascending):
\* within one priority the costs are non-increasing, and records of equal
\* priority and cost keep their original relative order.
C12_StablePermutation ==
    pc = "prioritized" =>
        /\ Len(violations) = Len(given)
        /\ \E pi \in [DOMAIN violations -> DOMAIN given] :
              /\ Injective(pi)
              /\ \A i \in DOMAIN violations :
                    /\ violations[i].type = given[pi[i]].type
                    /\ violations[i].severity = given[pi[i]].severity
                    /\ violations[i].bbox = given[pi[i]].bbox
              /\ \A i, j \in DOMAIN violations :
                    i < j =>
                        \/ violations[i].priority < violations[j].priority
                        \/ /\ violations[i].priority = violations[j].priority
                           /\ violations[i].cost > violations[j].cost
                        \/ /\ violations[i].priority = violations[j].priority
                           /\ violations[i].cost = violations[j].cost
                           /\ pi[i] < pi[j]

\* C12 witness: two Curb Ramp Slope records of equal priority and cost,
\* box 2 before box 1, move in front of a Landing Size record and keep
\* their order.
C12_Witness ==
    /\ pc = "prioritized"
    /\ Len(given) = 3
    /\ given[1].type = "Landing Size"
    /\ given[2].type = "Curb Ramp Slope" /\ given[2].bbox = 2
    /\ given[3].type = "Curb Ramp Slope" /\ given[3].bbox = 1
    /\ violations[1].type = "Curb Ramp Slope" /\ violations[1].bbox = 2
    /\ violations[2].type = "Curb Ramp Slope" /\ violations[2].bbox = 1
    /\ violations[3].type = "Landing Size"

\* The multipliers as the specification lists them, in tenths; a key outside
\* the list counts as 1.0.
ListedMultiplier(key) ==
    CASE key = "standard"           -> 10
      [] key = "urban_high_traffic" -> 13
      [] key = "historic_district"  -> 15
      [] key = "utility_conflicts"  -> 14
      [] key = "drainage_issues"    -> 12
      [] OTHER                      -> 10

\* C13: after estimate on a non-empty list every violation has cost and
\* labor_hours: for a type of the base-cost table round(typical cost x
\* multiplier) and the table's labor figure, for an unknown type 1000 and 8
\* with no multiplier; the value replaces the cost the prioritizer attached.
C13_CostAndLaborSet ==
    pc = "estimated" /\ given # <<>> =>
        /\ Len(violations) = Len(given)
        /\ \A i \in DOMAIN violations :
              /\ {"cost", "labor_hours"} \subseteq DOMAIN violations[i]
              /\ violations[i].type = given[i].type
              /\ IF violations[i].type \in BaseCostTypes
                 THEN /\ violations[i].cost =
                            RoundNearest(BASE_COSTS(violations[i].type).typical * ListedMultiplier(complexity), 10)
                      /\ violations[i].labor_hours = BASE_COSTS(violations[i].type).labor_hours
                 ELSE /\ violations[i].cost = 1000
                      /\ violations[i].labor_hours = 8

\* C13 witness: under urban_high_traffic a Curb Ramp Slope record that came
\* with cost 2500 leaves with 3250 and 16 hours, and a record of unknown
\* type leaves with 1000 and 8 hours.
C13_Witness ==
    /\ pc = "estimated"
    /\ complexity = "urban_high_traffic"
    /\ Len(given) = 2
    /\ given[1].type = "Curb Ramp Slope" /\ given[1].cost = 2500
    /\ violations[1].cost = 3250 /\ violations[1].labor_hours = 16
    /\ given[2].type = "Obstruction"
    /\ violations[2].cost = 1000 /\ violations[2].labor_hours = 8

\* C14 as stated: for every non-empty list and every complexity key
\* contingency = round(total_cost x 0.12), rounded to nearest, and
\* total_with_contingency = total_cost + round(total_cost x 0.12).
C14_ContingencyRounds ==
    pc = "estimated" /\ given # <<>> =>
        /\ cost_analysis.contingency = RoundNearest(cost_analysis.total_cost * 12, 100)
        /\ cost_analysis.total_with_contingency =
              cost_analysis.total_cost + RoundNearest(cost_analysis.total_cost * 12, 100)

\* C14 amended: contingency is total_cost x 0.12 truncated toward zero,
\* q with 100 q <= 12 total_cost < 100 (q + 1), and total_with_contingency
\* is total_cost + contingency, for every complexity key.
C14_ContingencyTruncates ==
    pc = "estimated" /\ given # <<>> =>
        \E q \in 0 .. cost_analysis.total_cost :
            /\ 100 * q <= 12 * cost_analysis.total_cost
            /\ 12 * cost_analysis.total_cost < 100 * (q + 1)
            /\ cost_analysis.contingency = q
            /\ cost_analysis.total_with_contingency = cost_analysis.total_cost + q

\* C14 witness: one Detectable Warning under urban_high_traffic costs 1040;
\* 124.8 is truncated to 124 where rounding gives 125.
C14_Witness ==
    /\ pc = "estimated"
    /\ complexity = "urban_high_traffic"
    /\ cost_analysis.total_cost = 1040
    /\ cost_analysis.contingency = 124
    /\ cost_analysis.total_with_contingency = 1164

\* C15: estimate([]) returns a zero-valued Estimate: total_cost 0,
\* contingency 0, timeline "N/A" and an empty breakdown.
C15_EmptyEstimate ==
    pc = "estimated" /\ given = <<>> =>
        /\ cost_analysis.total_cost = 0
        /\ "contingency" \in DOMAIN cost_analysis
        /\ cost_analysis.contingency = 0
        /\ cost_analysis.timeline = <<"N/A">>
        /\ cost_analysis.breakdown = <<>>

\* C16: a single Curb Ramp Slope violation under the default complexity
\* gets cost 2500 and 16 labor hours; total_cost is 2500, contingency 300
\* and total_with_contingency 2800.
C16_SingleCurbRampSlope ==
    /\ pc = "estimated"
    /\ Len(given) = 1
    /\ given[1].type = "Curb Ramp Slope"
    /\ complexity = "standard"
    => /\ violations[1].cost = 2500
       /\ violations[1].labor_hours = 16
       /\ cost_analysis.total_cost = 2500
       /\ cost_analysis.contingency = 300
       /\ cost_analysis.total_with_contingency = 2800

\* C16 witness: that call has returned.
C16_Witness ==
    /\ pc = "estimated"
    /\ Len(given) = 1
    /\ given[1].type = "Curb Ramp Slope"
    /\ complexity = "standard"
    /\ cost_analysis.total_cost = 2500

Recognized == {"standard", "urban_high_traffic", "historic_district",
               "utility_conflicts", "drainage_issues"}

\* C17: an unrecognized complexity key falls back to 1.0: the costs, the
\* totals and complexity_factor are those of "standard" on the same list.
C17_UnknownKeyIsStandard ==
    pc = "estimated" /\ complexity \notin Recognized =>
        /\ cost_analysis = estimate(given, "standard").result
        /\ violations = estimate(given, "standard").violations
        /\ (given # <<>> => cost_analysis.complexity_factor = 10)

\* C17 witness: the key "rural" on a non-empty list, multiplier 1.0.
C17_Witness ==
    /\ pc = "estimated"
    /\ complexity = "rural"
    /\ given # <<>>
    /\ cost_analysis.complexity_factor = 10
    /\ cost_analysis.total_cost > 0

RECURSIVE SumCost(_)
SumCost(vs) ==
    IF vs = <<>> THEN 0 ELSE GetDefault(Head(vs), "cost", 0) + SumCost(Tail(vs))

RECURSIVE SumPhaseCost(_)
SumPhaseCost(phases) ==
    IF phases = <<>> THEN 0 ELSE Head(phases).cost + SumPhaseCost(Tail(phases))

RECURSIVE PhaseViolations(_)
PhaseViolations(phases) ==
    IF phases = <<>> THEN <<>> ELSE Head(phases).violations \o PhaseViolations(Tail(phases))

\* C18: for every violation list and every budget the phase plan loses and
\* duplicates no violation: the phase costs sum to the input costs and the
\* phases hold as many violations as were given, also when one violation
\* costs more than the whole budget.
C18_NoViolationLost ==
    pc = "phased" =>
        /\ SumPhaseCost(plan.phases) = SumCost(given)
        /\ Len(PhaseViolations(plan.phases)) = Len(given)

\* The cost of the phase the loop ended in: that of the last returned
\* phase, 0 when no phase was returned.
LastPhaseCost ==
    IF plan.phases = <<>> THEN 0 ELSE plan.phases[Len(plan.phases)].cost

\* C19: fully_funded is false iff the cost of the last returned phase
\* exceeds the budget: the remaining-budget counter is the budget minus the
\* cost of the current phase.
C19_FullyFundedIffLastFits ==
    pc = "phased" =>
        /\ plan.fully_funded \in BOOLEAN
        /\ (plan.fully_funded = FALSE) <=> (LastPhaseCost > budget)

\* C19 witness: a cheap urgent violation opens phase 1 and a violation
\* costing more than the whole budget seeds the last phase: not funded.
C19_Witness ==
    /\ pc = "phased"
    /\ budget = 1000
    /\ plan.total_phases = 2
    /\ plan.phases[1].cost = 800
    /\ plan.phases[2].cost = 1800
    /\ plan.fully_funded = FALSE

\* The scenario of C20: the three violations with costs 3500, 2500, 800 and
\* priorities 1, 1, 2, in any order, with budget 4000.
Scenario ==
    /\ pc = "phased"
    /\ budget = 4000
    /\ Len(given) = 3
    /\ {<<GetDefault(given[i], "cost", 0), GetDefault(given[i], "priority", 3)>> : i \in 1 .. 3} =
          {<<3500, 1>>, <<2500, 1>>, <<800, 2>>}

PhaseCosts(phase) == [i \in 1 .. Len(phase.violations) |-> phase.violations[i].cost]

\* C20 as stated: costs 3500, 2500, 800 with priorities 1, 1, 2 and budget
\* 4000 give three phases: {3500}, {2500}, {800}.
C20_ThreePhases ==
    Scenario =>
        /\ plan.total_phases = 3
        /\ PhaseCosts(plan.phases[1]) = <<3500>>
        /\ PhaseCosts(plan.phases[2]) = <<2500>>
        /\ PhaseCosts(plan.phases[3]) = <<800>>

\* C20 amended: the scenario gives two phases: phase 1 = {3500} and
\* phase 2 = {2500, 800} with cost 3300, since 800 fits in the 1500 left
\* of phase 2; fully_funded is true.
C20_TwoPhases ==
    Scenario =>
        /\ plan.total_phases = 2
        /\ Len(plan.phases) = 2
        /\ PhaseCosts(plan.phases[1]) = <<3500>>
        /\ plan.phases[1].cost = 3500
        /\ plan.phases[1].phase_number = 1
        /\ PhaseCosts(plan.phases[2]) = <<2500, 800>>
        /\ plan.phases[2].cost = 3300
        /\ plan.phases[2].phase_number = 2
        /\ plan.fully_funded = TRUE

\* C20 witness: the scenario given cheapest first, planned.
C20_Witness ==
    /\ Scenario
    /\ given[1].cost = 800
    /\ given[3].cost = 3500
    /\ plan.total_phases = 2

\* C21: a budget <= 0 handed to estimate_phased_approach is rejected: no
\* phase plan and no fully_funded verdict is returned for it.
C21_NonPositiveBudgetRejected ==
    pc = "phased" /\ budget <= 0 =>
        /\ "phases" \notin DOMAIN plan
        /\ "fully_funded" \notin DOMAIN plan

\* C22: empty input is never an error: on an empty violation list
\* generate_cost_summary (like evaluate, estimate and
\* estimate_phased_approach) returns a result and does not raise.
C22_EmptyInputNoError ==
    pc = "summarized" /\ given = <<>> =>
        /\ "error" \notin DOMAIN summary
        /\ summary.total_violations = 0
        /\ summary.total_cost = 0

\* The integer part of a / b for a >= 0 and b > 0.
Floor(a, b) == CHOOSE q \in 0 .. a : b * q <= a /\ a < b * (q + 1)

\* C23: for H > 0 hours, with work_days = H x 1.2 / 17.5 = 12H / 175 and
\* weeks = work_days / 5 = 12H / 875: weeks < 1 gives "N days" with
\* N = floor(work_days); 1 <= weeks < 4 gives "N weeks" with N =
\* floor(weeks); 4 <= weeks < 12 gives "M-(M+1) months" and weeks >= 12
\* gives "M months", with M = floor(weeks / 4).
C23_TimelineLabel ==
    pc = "timed" /\ hours_given > 0 =>
        LET H == hours_given
        IN  /\ 12 * H < 875 => timeline = <<Floor(12 * H, 175), "days">>
            /\ 875 <= 12 * H /\ 12 * H < 4 * 875 => timeline = <<Floor(12 * H, 875), "weeks">>
            /\ 4 * 875 <= 12 * H /\ 12 * H < 12 * 875 =>
                  timeline = <<Floor(12 * H, 3500), Floor(12 * H, 3500) + 1, "months">>
            /\ 12 * 875 <= 12 * H => timeline = <<Floor(12 * H, 3500), "months">>

\* C23 witness: 875 hours are exactly twelve weeks, "3 months".
C23_Witness ==
    /\ pc = "timed"
    /\ hours_given = 875
    /\ timeline = <<3, "months">>

\* C24: after evaluate and then estimate under any of the five complexity
\* keys the violation list is still in the prioritizer's order: priorities
\* are non-decreasing and, within one priority, the final costs are
\* non-increasing.
C24_OrderKeptAfterEstimate ==
    pc = "piped" =>
        \A i \in 1 .. Len(violations) - 1 :
            \/ violations[i].priority < violations[i + 1].priority
            \/ /\ violations[i].priority = violations[i + 1].priority
               /\ violations[i].cost >= violations[i + 1].cost

\* C24 witness: two violations of priority 1 whose costs the estimator has
\* rewritten under a multiplier above 1.0, the dearer still first.
C24_Witness ==
    /\ pc = "piped"
    /\ complexity = "historic_district"
    /\ Len(violations) >= 2
    /\ violations[1].priority = violations[2].priority
    /\ violations[1].cost > violations[2].cost
    /\ violations[1].cost # given[1].cost

\* C25: for a CurbRamp detection a Landing Size violation is emitted iff a
\* landing pair is present and at least one of its two components is below
\* 36; a pair with both components at least 36, exactly 36 included, yields
\* none.
C25_LandingPairIff ==
    pc = "analyzed" =>
        \A d \in Dets :
            ClassOf(d.class_name) = "CurbRamp" =>
                (HasViolation("Landing Size", d) <=>
                    /\ Present("landing_size", d.id)
                    /\ \E k \in 1 .. 2 : measurements["landing_size"][d.id][k] < 36)

\* C25 witness: a curb ramp whose landing is 40 by 35: only the second
\* component is short, and the violation is emitted.
C25_Witness ==
    /\ pc = "analyzed"
    /\ \E d \in Dets :
          /\ ClassOf(d.class_name) = "CurbRamp"
          /\ Present("landing_size", d.id)
          /\ measurements["landing_size"][d.id] = <<40, 35>>
          /\ HasViolation("Landing Size", d)

PriorityOf(v) == GetDefault(v, "priority", 3)

CostOf(v) == GetDefault(v, "cost", 0)

\* C26: the violations of the returned phases, concatenated in phase
\* order, are in ascending priority and, within one priority, descending
\* cost; so no violation of a later phase has a strictly smaller priority
\* number than one of an earlier phase.
C26_PhasesInProcessingOrder ==
    pc = "phased" =>
        LET all == PhaseViolations(plan.phases)
        IN  /\ \A i \in 1 .. Len(all) - 1 :
                  \/ PriorityOf(all[i]) < PriorityOf(all[i + 1])
                  \/ /\ PriorityOf(all[i]) = PriorityOf(all[i + 1])
                     /\ CostOf(all[i]) >= CostOf(all[i + 1])
            /\ \A p, q \in 1 .. Len(plan.phases) :
                  p < q =>
                     \A i \in 1 .. Len(plan.phases[p].violations) :
                        \A j \in 1 .. Len(plan.phases[q].violations) :
                           PriorityOf(plan.phases[p].violations[i])
                              <= PriorityOf(plan.phases[q].violations[j])

\* C26 witness: three violations given in the reverse of the processing
\* order and planned in two phases.
C26_Witness ==
    /\ pc = "phased"
    /\ Len(given) = 3
    /\ PriorityOf(given[1]) > PriorityOf(given[2])
    /\ PriorityOf(given[2]) = PriorityOf(given[3])
    /\ CostOf(given[2]) < CostOf(given[3])
    /\ plan.total_phases = 2
    /\ Len(PhaseViolations(plan.phases)) = 3

\* C28: when budget > 0 and every violation costs at most the budget, the
\* phases are all non-empty, numbered 1 .. total_phases, each of cost at
\* most the budget, they hold every input violation exactly once, and
\* fully_funded is true.
C28_AllFitPlan ==
    /\ pc = "phased"
    /\ budget > 0
    /\ \A i \in 1 .. Len(given) : CostOf(given[i]) <= budget
    => LET all == PhaseViolations(plan.phases)
       IN  /\ plan.total_phases = Len(plan.phases)
           /\ \A p \in 1 .. Len(plan.phases) :
                 /\ plan.phases[p].violations # <<>>
                 /\ plan.phases[p].phase_number = p
                 /\ plan.phases[p].cost <= budget
                 /\ plan.phases[p].cost = SumCost(plan.phases[p].violations)
           /\ Len(all) = Len(given)
           /\ \A v \in {given[i] : i \in 1 .. Len(given)} \cup {all[i] : i \in 1 .. Len(all)} :
                 Cardinality({i \in 1 .. Len(all) : all[i] = v})
                    = Cardinality({i \in 1 .. Len(given) : given[i] = v})
           /\ plan.fully_funded = TRUE

\* C28 witness: three violations that each fit the budget of 4000 but not
\* together: three numbered phases.
C28_Witness ==
    /\ pc = "phased"
    /\ budget = 4000
    /\ Len(given) = 3
    /\ \A i \in 1 .. 3 : CostOf(given[i]) <= budget /\ CostOf(given[i]) > 0
    /\ plan.total_phases = 3
    /\ plan.phases[3].phase_number = 3
    /\ plan.fully_funded = TRUE

\* One rescoring step compared with the call before it.
RescoreStepMonotone ==
    pc \in {"scored", "rescored"} /\ pc' = "rescored" /\ Len(detections) >= 1 =>
        /\ (Len(detections') > Len(detections) /\ violations' = violations
               => score' >= score)
        /\ (Len(violations') > Len(violations) /\ detections' = detections
               => score' <= score)

\* C27: for a fixed violation list the score does not fall when the number
\* of detections n >= 1 grows, and for a fixed n >= 1 the score does not
\* rise when a violation is added.
C27_ScoreMonotone == [][RescoreStepMonotone]_vars

\* C27 witness: one High violation rescored over two detections: 50, where
\* one detection gives 0 and no violation gives 100.
C27_Witness ==
    /\ pc = "rescored"
    /\ Len(detections) = 2
    /\ Len(violations) = 1
    /\ violations[1].severity = "High"
    /\ score = 50

RECURSIVE SumField(_, _)
SumField(entries, field) ==
    IF entries = <<>> THEN 0 ELSE Head(entries)[field] + SumField(Tail(entries), field)

\* C29: for every non-empty list the breakdown has exactly one entry per
\* input violation, in input order, and total_cost and labor_hours are the
\* sums of the entries' costs and labor hours, also when some types are not
\* in the base-cost table.
C29_BreakdownComplete ==
    pc = "estimated" /\ given # <<>> =>
        /\ Len(cost_analysis.breakdown) = Len(given)
        /\ \A i \in 1 .. Len(cost_analysis.breakdown) :
              i <= Len(given) => cost_analysis.breakdown[i].type = given[i].type
        /\ cost_analysis.total_cost = SumField(cost_analysis.breakdown, "cost")
        /\ cost_analysis.labor_hours = SumField(cost_analysis.breakdown, "labor_hours")

FrameFields == {"type", "severity", "priority", "bbox"}

\* After either call the list has its length and order and every record its
\* type, severity, priority and bbox; only cost and labor_hours are new.
EstimateFrame ==
    pc \in {"estimated", "estimated_again"} =>
        /\ Len(violations) = Len(given)
        /\ \A i \in 1 .. Len(given) :
              /\ DOMAIN violations[i] = DOMAIN given[i] \cup {"cost", "labor_hours"}
              /\ \A f \in DOMAIN given[i] \ {"cost", "labor_hours"} :
                    violations[i][f] = given[i][f]
              /\ FrameFields \subseteq DOMAIN violations[i]

\* The second call returns what the first returned and leaves the records
\* as the first left them.
EstimateAgainSame ==
    pc = "estimated" /\ pc' = "estimated_again" =>
        /\ cost_analysis' = cost_analysis
        /\ violations' = violations

\* C30: estimate changes only the cost and labor_hours fields of the
\* records it is given (length, order, type, severity, priority and bbox
\* are kept), and a second call with the same complexity returns an
\* identical Estimate.
C30_FrameAndRepeat == []EstimateFrame /\ [][EstimateAgainSame]_vars

\* C30 witness: a second call under urban_high_traffic has returned 3250
\* for a Curb Ramp Slope record that was given with cost 2500.
C30_Witness ==
    /\ pc = "estimated_again"
    /\ complexity = "urban_high_traffic"
    /\ Len(given) = 2
    /\ given[1].type = "Curb Ramp Slope" /\ given[1].cost = 2500
    /\ violations[1].cost = 3250
    /\ cost_analysis.total_cost = 3250 + violations[2].cost

====
